---- MODULE Spec2Model ----
(***************************************************************************)
(* Column converters, statistics buffer and typed column buffers of the    *)
(* snowflake streaming package (src/internal/cli/flags_redpanda.go,        *)
(* lines 188-660).                                                         *)
(*                                                                         *)
(* Fixed-width integers (int32, int64, int128.Num) are little-endian       *)
(* sequences of 16-bit limbs in two's complement: 2, 4 and 8 limbs.  The   *)
(* model checker's own integers are 32 bits wide, so every Go value that   *)
(* may leave that range is kept in limbs and computed with limb arithmetic.*)
(***************************************************************************)
EXTENDS Integers, Sequences, FiniteSets, TLC

VARIABLES
    conv,       \* the column's converter (its type and configuration)
    stats,      \* the column's statsBuffer
    buf,        \* the column's typedBuffer: matrix, columnIndex, rowWidth, currentRow
    last,       \* the last call: operation, argument, returned error
    accepted,   \* history: the converted values of the calls that returned nil
    nullsIn     \* history: the number of nil inputs that returned nil

vars == <<conv, stats, buf, last, accepted, nullsIn>>

-----------------------------------------------------------------------------
(* Bounds of the model. *)

\* rows of the pre-allocated matrix: calls per column between two Prepare
MaxRows == 3
\* columns of the widest matrix
MaxWidth == 2

-----------------------------------------------------------------------------
(* Fixed-width two's-complement integers. *)

LimbBits == 16
Limb == 2^LimbBits
HalfLimb == 2^(LimbBits - 1)
\* limbs of int32, int64 and int128.Num
Limbs32 == 32 \div LimbBits
Limbs64 == 64 \div LimbBits
Limbs128 == 128 \div LimbBits

\* the w-limb integer of a small integer n (-2^31 < n < 2^31)
Fixed(n, w) ==
    [i \in 1..w |-> IF i = 1 THEN n % Limb
                    ELSE IF i = 2 THEN (n \div Limb) % Limb
                    ELSE IF n < 0 THEN Limb - 1 ELSE 0]

IsNeg(a) == a[Len(a)] >= HalfLimb

\* Go's conversion to a wider signed type
SignExtend(a, w) ==
    [i \in 1..w |-> IF i <= Len(a) THEN a[i]
                    ELSE IF IsNeg(a) THEN Limb - 1 ELSE 0]

\* Go's conversion to a narrower integer type: the low-order bits
Truncate(a, w) == SubSeq(a, 1, w)

RECURSIVE AddFrom(_, _, _, _)
AddFrom(a, b, i, c) ==
    IF i > Len(a) THEN <<>>
    ELSE LET s == a[i] + b[i] + c
         IN  <<s % Limb>> \o AddFrom(a, b, i + 1, s \div Limb)

\* a + b, wrapping at the width of a
Add(a, b) == AddFrom(a, b, 1, 0)

\* -a, wrapping at the width of a
Neg(a) == Add([i \in 1..Len(a) |-> Limb - 1 - a[i]], Fixed(1, Len(a)))

RECURSIVE MulFrom(_, _, _, _)
MulFrom(a, k, i, c) ==
    IF i > Len(a) THEN <<>>
    ELSE LET p == a[i] * k + c
         IN  <<p % Limb>> \o MulFrom(a, k, i + 1, p \div Limb)

\* a * k for 0 <= k < 2^15, wrapping at the width of a
MulSmall(a, k) == MulFrom(a, k, 1, 0)

RECURSIVE DivFrom(_, _, _, _)
DivFrom(a, k, i, r) ==
    IF i = 0 THEN <<>>
    ELSE LET cur == r * Limb + a[i]
         IN  DivFrom(a, k, i - 1, cur % k) \o <<cur \div k>>

\* Go's a / k for 0 < k < 2^15: the quotient truncated toward zero
QuoSmall(a, k) ==
    IF IsNeg(a) THEN Neg(DivFrom(Neg(a), k, Len(a), 0))
    ELSE DivFrom(a, k, Len(a), 0)

RECURSIVE ULessFrom(_, _, _)
ULessFrom(a, b, i) ==
    IF i = 0 THEN FALSE
    ELSE IF a[i] # b[i] THEN a[i] < b[i]
    ELSE ULessFrom(a, b, i - 1)

\* a < b as signed integers of the same width
Less(a, b) ==
    IF IsNeg(a) # IsNeg(b) THEN IsNeg(a)
    ELSE ULessFrom(a, b, Len(a))

-----------------------------------------------------------------------------
(* time.Time: an instant (whole days since 1970-01-01 UTC, second of that  *)
(* UTC day, nanosecond) and the zone offset in seconds it is shown in.     *)

SecondsPerHour == 60 * 60
HoursPerDay == 24
SecondsPerDay == HoursPerDay * SecondsPerHour

\* the proleptic Gregorian year of day number z (days since 1970-01-01)
CivilYear(z) ==
    LET zz  == z + 719468
        era == zz \div 146097
        doe == zz - era * 146097
        yoe == (doe - doe \div 1460 + doe \div 36524 - doe \div 146096) \div 365
        doy == doe - (365 * yoe + yoe \div 4 - yoe \div 100)
        mp  == (5 * doy + 2) \div 153
    IN  yoe + era * 400 + (IF mp < 10 THEN 0 ELSE 1)

\* the day number of the civil date y-m-d
DaysFromCivil(y, m, d) ==
    LET yy  == IF m <= 2 THEN y - 1 ELSE y
        era == yy \div 400
        yoe == yy - era * 400
        doy == (153 * (IF m > 2 THEN m - 3 ELSE m + 9) + 2) \div 5 + d - 1
        doe == yoe * 365 + yoe \div 4 - yoe \div 100 + doy
    IN  era * 146097 + doe - 719468

IsLeap(y) == (y % 4 = 0 /\ y % 100 # 0) \/ y % 400 = 0

DaysIn(m, y) ==
    IF m = 2 THEN (IF IsLeap(y) THEN 29 ELSE 28)
    ELSE IF m \in {4, 6, 9, 11} THEN 30 ELSE 31

\* time.Date(y, m, d, h, mi, s, 0, FixedZone(off)): wall clock y-m-d h:mi:s at offset off
Date(y, m, d, h, mi, s, off) ==
    LET wall == h * SecondsPerHour + mi * 60 + s - off
    IN  [day |-> DaysFromCivil(y, m, d) + wall \div SecondsPerDay,
         sod |-> wall % SecondsPerDay,
         ns  |-> 0,
         off |-> off]

\* the zero time.Time: January 1, year 1, 00:00:00 UTC
ZeroTime == Date(1, 1, 1, 0, 0, 0, 0)

\* t.UTC(): the same instant shown in UTC
UTC(t) == [t EXCEPT !.off = 0]

\* t.Year(): the year of the wall clock in t's zone
Year(t) == CivilYear(t.day + (t.sod + t.off) \div SecondsPerDay)

\* t.Unix(): seconds since the epoch, an int64
Unix(t) ==
    Add(MulSmall(MulSmall(Fixed(t.day, Limbs64), SecondsPerHour), HoursPerDay),
        Fixed(t.sod, Limbs64))

\* the number of the UTC calendar day that contains t
UTCDayNumber(t) == t.day

-----------------------------------------------------------------------------
(* time.ParseInLocation(time.RFC3339Nano, s, loc) on byte strings of the   *)
(* forms YYYY-MM-DDTHH:MM:SSZ and YYYY-MM-DDTHH:MM:SS(+|-)HH:MM; every     *)
(* other string the model offers is no RFC 3339 timestamp.                  *)

IsDigit(b) == b >= 48 /\ b <= 57
Num2(s, i) == (s[i] - 48) * 10 + (s[i + 1] - 48)
Num4(s, i) == Num2(s, i) * 100 + Num2(s, i + 2)

ParseRFC3339(s) ==
    LET bad == [ok |-> FALSE, t |-> ZeroTime]
    IN  IF Len(s) \notin {20, 25} THEN bad
        ELSE IF \/ \E i \in {1, 2, 3, 4, 6, 7, 9, 10, 12, 13, 15, 16, 18, 19} : ~IsDigit(s[i])
                \/ s[5] # 45 \/ s[8] # 45 \/ s[11] # 84 \/ s[14] # 58 \/ s[17] # 58
             THEN bad
        ELSE LET y  == Num4(s, 1)
                 m  == Num2(s, 6)
                 d  == Num2(s, 9)
                 h  == Num2(s, 12)
                 mi == Num2(s, 15)
                 sc == Num2(s, 18)
                 fieldsOk == /\ m >= 1 /\ m <= 12 /\ d >= 1 /\ d <= DaysIn(m, y)
                             /\ h <= 23 /\ mi <= 59 /\ sc <= 59
             IN  IF ~fieldsOk THEN bad
                 ELSE IF Len(s) = 20
                      THEN IF s[20] = 90
                           THEN [ok |-> TRUE, t |-> Date(y, m, d, h, mi, sc, 0)]
                           ELSE bad
                 ELSE IF \/ s[20] \notin {43, 45} \/ s[23] # 58
                         \/ \E i \in {21, 22, 24, 25} : ~IsDigit(s[i])
                         \/ Num2(s, 21) > 23 \/ Num2(s, 24) > 59
                      THEN bad
                 ELSE LET o == Num2(s, 21) * SecondsPerHour + Num2(s, 24) * 60
                      IN  [ok |-> TRUE,
                           t  |-> Date(y, m, d, h, mi, sc, IF s[20] = 45 THEN -o ELSE o)]

-----------------------------------------------------------------------------
(* Byte strings: sequences of bytes 0..255. *)

RECURSIVE CompareFrom(_, _, _)
CompareFrom(a, b, i) ==
    IF i > Len(a) /\ i > Len(b) THEN 0
    ELSE IF i > Len(a) THEN -1
    ELSE IF i > Len(b) THEN 1
    ELSE IF a[i] < b[i] THEN -1
    ELSE IF a[i] > b[i] THEN 1
    ELSE CompareFrom(a, b, i + 1)

\* bytes.Compare(a, b): -1, 0 or 1 in byte-lexicographic order
BytesCompare(a, b) == CompareFrom(a, b, 1)

IsCont(b) == b >= 128 /\ b <= 191

RECURSIVE Utf8ValidFrom(_, _)
Utf8ValidFrom(s, i) ==
    IF i > Len(s) THEN TRUE
    ELSE LET b == s[i]
         IN  IF b < 128 THEN Utf8ValidFrom(s, i + 1)
             ELSE IF b >= 194 /\ b <= 223
                  THEN i + 1 <= Len(s) /\ IsCont(s[i + 1]) /\ Utf8ValidFrom(s, i + 2)
             ELSE IF b >= 224 /\ b <= 239
                  THEN /\ i + 2 <= Len(s)
                       /\ s[i + 1] >= (IF b = 224 THEN 160 ELSE 128)
                       /\ s[i + 1] <= (IF b = 237 THEN 159 ELSE 191)
                       /\ IsCont(s[i + 2])
                       /\ Utf8ValidFrom(s, i + 3)
             ELSE IF b >= 240 /\ b <= 244
                  THEN /\ i + 3 <= Len(s)
                       /\ s[i + 1] >= (IF b = 240 THEN 144 ELSE 128)
                       /\ s[i + 1] <= (IF b = 244 THEN 143 ELSE 191)
                       /\ IsCont(s[i + 2]) /\ IsCont(s[i + 3])
                       /\ Utf8ValidFrom(s, i + 4)
             ELSE FALSE

\* utf8.Valid(v)
Utf8Valid(s) == Utf8ValidFrom(s, 1)

-----------------------------------------------------------------------------
(* float64: a finite value (an integer in the model) or NaN. *)

Real(n) == [nan |-> FALSE, v |-> n]
NaN == [nan |-> TRUE, v |-> 0]

\* Go's built-in min and max on float64: NaN if either argument is NaN
FloatMin(x, y) == IF x.nan \/ y.nan THEN NaN ELSE IF y.v < x.v THEN y ELSE x
FloatMax(x, y) == IF x.nan \/ y.nan THEN NaN ELSE IF y.v > x.v THEN y ELSE x

-----------------------------------------------------------------------------
(* int128.Num: 128-bit two's-complement integers. *)

Zero128 == Fixed(0, Limbs128)

\* int128.FromInt64
FromInt64(x) == SignExtend(x, Limbs128)

\* int128.FromUint64
FromUint64(x) == [i \in 1..Limbs128 |-> IF i <= Len(x) THEN x[i] ELSE 0]

\* v.ToInt64(): the low 64 bits
ToInt64(v) == Truncate(v, Limbs64)

\* v.ToBigEndian(): the 16 bytes of v, most significant first (as limbs)
ToBigEndian(v) == [i \in 1..Len(v) |-> v[Len(v) + 1 - i]]

\* the integer a big-endian fixed-length cell denotes
FromBigEndian(b) == [i \in 1..Len(b) |-> b[Len(b) + 1 - i]]

RECURSIVE Pow10(_, _)
\* 10^p at width w
Pow10(p, w) ==
    IF p = 0 THEN Fixed(1, w)
    ELSE IF p >= 4 THEN MulSmall(Pow10(p - 4, w), 10^4)
    ELSE MulSmall(Pow10(p - 1, w), 10)

\* a * 10^p
RECURSIVE MulPow10(_, _)
MulPow10(a, p) ==
    IF p = 0 THEN a
    ELSE IF p >= 4 THEN MulPow10(MulSmall(a, 10^4), p - 4)
    ELSE MulPow10(MulSmall(a, 10), p - 1)

Abs(a) == IF IsNeg(a) THEN Neg(a) ELSE a

\* v.FitsInPrecision(p): |v| < 10^p
FitsInPrecision(v, p) == Less(Abs(v), Pow10(p, Len(v)))

\* int128.Min and int128.Max
Int128Min(a, b) == IF Less(a, b) THEN a ELSE b
Int128Max(a, b) == IF Less(b, a) THEN a ELSE b

\* int128.Rescale(v, precision, scale): v * 10^scale, an error when the
\* product has more than precision digits
Rescale(v, precision, scale) ==
    LET r == MulPow10(v, scale)
    IN  IF FitsInPrecision(r, precision) THEN [ok |-> TRUE, v |-> r]
        ELSE [ok |-> FALSE, v |-> Zero128]

\* int128.FromFloat64(f, precision, scale)
FromFloat64(f, precision, scale) ==
    IF f.nan THEN [ok |-> FALSE, v |-> Zero128]
    ELSE Rescale(Fixed(f.v, Limbs128), precision, scale)

RECURSIVE DigitsFrom(_, _, _)
\* the value of the decimal digits s[i..], acc so far, as a Num
DigitsFrom(s, i, acc) ==
    IF i > Len(s) THEN acc
    ELSE DigitsFrom(s, i + 1, Add(MulSmall(acc, 10), Fixed(s[i] - 48, Limbs128)))

\* int128.FromString(s, precision, scale) on integer decimal text
FromString(s, precision, scale) ==
    LET neg == Len(s) > 0 /\ s[1] = 45
        from == IF neg THEN 2 ELSE 1
    IN  IF from > Len(s) \/ \E i \in from..Len(s) : ~IsDigit(s[i])
        THEN [ok |-> FALSE, v |-> Zero128]
        ELSE LET m == DigitsFrom(s, from, Zero128)
             IN  Rescale(IF neg THEN Neg(m) ELSE m, precision, scale)

-----------------------------------------------------------------------------
(* Runtime values (val any). *)

Nil == [k |-> "nil"]
BoolVal(b) == [k |-> "bool", b |-> b]
\* a signed native integer, as an int64
IntVal(n) == [k |-> "int", n |-> Fixed(n, Limbs64)]
\* an unsigned native integer, as the 64 bits of a uint64
UintVal(x) == [k |-> "uint", n |-> x]
FloatVal(f) == [k |-> "float", f |-> f]
StrVal(s) == [k |-> "string", s |-> s]
BytesVal(s) == [k |-> "bytes", s |-> s]
TimeVal(t) == [k |-> "time", t |-> t]
\* a []any of small integers
ArrVal(e) == [k |-> "array", e |-> e]
\* a map[string]any from one-letter keys to small integers
ObjVal(m) == [k |-> "object", m |-> m]

\* the small integer a fixed-width integer denotes (when it has one)
SmallOf(a) ==
    IF IsNeg(a) THEN (a[2] - Limb) * Limb + a[1] ELSE a[2] * Limb + a[1]

\* the errors ValidateAndConvert returns
NoError == "nil"
ErrNullValue == "unexpected null value"
ErrCoerce == "type error"
ErrRescale == "rescale error"
ErrTooLong == "value too long"
ErrInvalidUTF8 == "invalid UTF8"
ErrNotArray == "not a JSON array"
ErrNotObject == "not a JSON object"
ErrParseTimestamp == "unable to parse timestamp value"
ErrPrecision == "unable to fit timestamp within required precision"
ErrDateRange == "DATE columns out of range"

\* bloblang.ValueAsBool
ValueAsBool(val) ==
    IF val.k = "bool" THEN [ok |-> TRUE, v |-> val.b]
    ELSE IF val.k \in {"int", "uint"} THEN [ok |-> TRUE, v |-> val.n # Fixed(0, Limbs64)]
    ELSE IF val.k = "float" THEN [ok |-> TRUE, v |-> val.f # Real(0)]
    ELSE [ok |-> FALSE, v |-> FALSE]

\* bloblang.ValueAsFloat64
ValueAsFloat64(val) ==
    IF val.k = "float" THEN [ok |-> TRUE, v |-> val.f]
    ELSE IF val.k \in {"int", "uint"} THEN [ok |-> TRUE, v |-> Real(SmallOf(val.n))]
    ELSE [ok |-> FALSE, v |-> Real(0)]

\* bloblang.ValueAsBytes
ValueAsBytes(val) ==
    IF val.k \in {"string", "bytes"} THEN [ok |-> TRUE, v |-> val.s]
    ELSE [ok |-> FALSE, v |-> <<>>]

\* bloblang.ValueAsInt64, reached with the kinds the type switch leaves over
ValueAsInt64(val) == [ok |-> FALSE, v |-> Fixed(0, Limbs64)]

\* time.Unix(n, 0) for a small n
TimeUnix(n) ==
    [day |-> n \div SecondsPerDay, sod |-> n % SecondsPerDay, ns |-> 0, off |-> 0]

\* bloblang.ValueAsTimestamp
ValueAsTimestamp(val) ==
    IF val.k = "time" THEN [ok |-> TRUE, t |-> val.t]
    ELSE IF val.k \in {"int", "uint"} THEN [ok |-> TRUE, t |-> TimeUnix(SmallOf(val.n))]
    ELSE IF val.k \in {"string", "bytes"} THEN ParseRFC3339(val.s)
    ELSE [ok |-> FALSE, t |-> ZeroTime]

RECURSIVE JoinDigits(_, _)
JoinDigits(e, i) ==
    IF i > Len(e) THEN <<>>
    ELSE (IF i > 1 THEN <<44>> ELSE <<>>) \o <<48 + e[i]>> \o JoinDigits(e, i + 1)

RECURSIVE JoinMembers(_, _, _)
\* the members of m with keys in ks, in increasing key order
JoinMembers(m, ks, firstOne) ==
    IF ks = {} THEN <<>>
    ELSE LET key == CHOOSE x \in ks : \A y \in ks : x <= y
         IN  (IF firstOne THEN <<>> ELSE <<44>>)
             \o <<34, key, 34, 58, 48 + m[key]>>
             \o JoinMembers(m, ks \ {key}, FALSE)

\* gabs.Wrap(val).Bytes(): the JSON encoding of val
JSONBytes(val) ==
    IF val.k = "array" THEN <<91>> \o JoinDigits(val.e, 1) \o <<93>>
    ELSE IF val.k = "object" THEN <<123>> \o JoinMembers(val.m, DOMAIN val.m, TRUE) \o <<125>>
    ELSE IF val.k = "string" THEN <<34>> \o val.s \o <<34>>
    ELSE IF val.k = "bool" THEN (IF val.b THEN <<116, 114, 117, 101>>
                                 ELSE <<102, 97, 108, 115, 101>>)
    ELSE IF val.k = "int" /\ SmallOf(val.n) \in 0..9 THEN <<48 + SmallOf(val.n)>>
    ELSE <<110, 117, 108, 108>>

-----------------------------------------------------------------------------
(* parquet.Value cells and the typed buffers. *)

\* the zero parquet.Value of a freshly allocated matrix
UnsetCell == [kind |-> "unset"]
\* parquet.NullValue()
NullValue == [kind |-> "null"]
\* v.Level(0, 1, columnIndex) of a value of the given kind
Leveled(kind, v, columnIndex) == [kind |-> kind, v |-> v, def |-> 1, col |-> columnIndex]

BufferKinds == {"typedBufferImpl", "int64Buffer", "int32Buffer"}

\* a matrix of rows x rowWidth unset cells
NewMatrix(rows, rowWidth) == [i \in 1..(rows * rowWidth) |-> UnsetCell]

\* b.matrix[(b.currentRow*b.rowWidth)+b.columnIndex], as an index from 0
CellIndex(b) == (b.currentRow * b.rowWidth) + b.columnIndex

\* the write does not run past the matrix (Go panics when it does)
InRange(b) == CellIndex(b) < Len(b.matrix)

\* WriteValue with a slip: the cursor is not advanced
WriteValueNoAdvance(b, v) == [b EXCEPT !.matrix[CellIndex(b) + 1] = v]

\* typedBufferImpl.WriteValue
WriteValue(b, v) ==
    [b EXCEPT !.matrix[CellIndex(b) + 1] = v, !.currentRow = b.currentRow + 1]

\* typedBufferImpl.WriteNull
WriteNull(b) == WriteValue(b, NullValue)

\* typedBufferImpl.WriteInt128
ImplWriteInt128(b, v) ==
    WriteValue(b, Leveled("fixed", ToBigEndian(v), b.columnIndex))

\* int64Buffer.WriteInt128 with a slip: the int32 conversion copied over
Int64WriteInt128Via32(b, v) ==
    WriteValue(b, Leveled("int64", SignExtend(Truncate(ToInt64(v), Limbs32), Limbs64),
                          b.columnIndex))

\* int64Buffer.WriteInt128
Int64WriteInt128(b, v) ==
    WriteValue(b, Leveled("int64", ToInt64(v), b.columnIndex))

\* int32Buffer.WriteInt128
Int32WriteInt128(b, v) ==
    WriteValue(b, Leveled("int32", Truncate(ToInt64(v), Limbs32), b.columnIndex))

\* buf.WriteInt128 through the typedBuffer interface
WriteInt128(b, v) ==
    IF b.kind = "int64Buffer" THEN Int64WriteInt128(b, v)
    ELSE IF b.kind = "int32Buffer" THEN Int32WriteInt128(b, v)
    ELSE ImplWriteInt128(b, v)

\* typedBufferImpl.WriteBool
WriteBool(b, v) == WriteValue(b, Leveled("boolean", v, b.columnIndex))

\* typedBufferImpl.WriteFloat64
WriteFloat64(b, v) == WriteValue(b, Leveled("double", v, b.columnIndex))

\* typedBufferImpl.WriteBytes
WriteBytes(b, v) == WriteValue(b, Leveled("bytes", v, b.columnIndex))

\* typedBufferImpl.Prepare
Prepare(b, matrix, columnIndex, rowWidth) ==
    [b EXCEPT !.currentRow = 0, !.matrix = matrix,
              !.columnIndex = columnIndex, !.rowWidth = rowWidth]

\* typedBufferImpl.Reset
Reset(b) == Prepare(b, <<>>, 0, 0)

\* a buffer of the given kind before its first Prepare
NewBuffer(kind) ==
    [kind |-> kind, matrix |-> <<>>, columnIndex |-> 0, rowWidth |-> 0, currentRow |-> 0]

\* the integer a cell written by WriteInt128 denotes, as a 128-bit integer
CellInt(cell) ==
    IF cell.kind = "fixed" THEN FromBigEndian(cell.v)
    ELSE SignExtend(cell.v, Limbs128)

-----------------------------------------------------------------------------
(* statsBuffer and the converters. *)

\* a statsBuffer at the start of a chunk
NewStats ==
    [first |-> TRUE, nullCount |-> 0,
     minIntVal |-> Zero128, maxIntVal |-> Zero128,
     minRealVal |-> Real(0), maxRealVal |-> Real(0),
     minStrVal |-> <<>>, maxStrVal |-> <<>>, maxStrLen |-> 0]

\* what one ValidateAndConvert call returns and leaves behind; v is the
\* converted value of an accepted non-nil input
Fail(err, st, b) == [err |-> err, stats |-> st, buf |-> b, v |-> <<>>]
Done(st, b, v) == [err |-> NoError, stats |-> st, buf |-> b, v |-> v]

\* HandleNil with a slip: a nil counts as the column's first value
HandleNilClearsFirst(c, st, b) ==
    IF ~c.nullable THEN Fail(ErrNullValue, st, b)
    ELSE Done([st EXCEPT !.nullCount = st.nullCount + 1, !.first = FALSE],
              WriteNull(b), <<>>)

\* if val == nil { ... }: the first lines of every ValidateAndConvert
HandleNil(c, st, b) ==
    IF ~c.nullable THEN Fail(ErrNullValue, st, b)
    ELSE Done([st EXCEPT !.nullCount = st.nullCount + 1], WriteNull(b), <<>>)

\* if stats.first { ... } else { int128.Min / int128.Max }
UpdateInt(st, v) ==
    IF st.first
    THEN [st EXCEPT !.minIntVal = v, !.maxIntVal = v, !.first = FALSE]
    ELSE [st EXCEPT !.minIntVal = Int128Min(st.minIntVal, v),
                    !.maxIntVal = Int128Max(st.maxIntVal, v)]

\* if stats.first { ... } else { min / max } of doubleConverter
UpdateReal(st, v) ==
    IF st.first
    THEN [st EXCEPT !.minRealVal = v, !.maxRealVal = v, !.first = FALSE]
    ELSE [st EXCEPT !.minRealVal = FloatMin(st.minRealVal, v),
                    !.maxRealVal = FloatMax(st.maxRealVal, v)]

\* if stats.first { ... } else { bytes.Compare } of binaryConverter and jsonConverter
UpdateStr(st, v) ==
    IF st.first
    THEN [st EXCEPT !.minStrVal = v, !.maxStrVal = v, !.maxStrLen = Len(v),
                    !.first = FALSE]
    ELSE [st EXCEPT !.minStrVal = IF BytesCompare(v, st.minStrVal) < 0 THEN v ELSE @,
                    !.maxStrVal = IF BytesCompare(v, st.maxStrVal) > 0 THEN v ELSE @,
                    !.maxStrLen = IF Len(v) > st.maxStrLen THEN Len(v) ELSE @]

\* boolConverter.ValidateAndConvert
BoolValidateAndConvert(c, st, val, b) ==
    IF val = Nil THEN HandleNil(c, st, b)
    ELSE LET r == ValueAsBool(val)
         IN  IF ~r.ok THEN Fail(ErrCoerce, st, b)
             ELSE LET i == FromUint64(Fixed(IF r.v THEN 1 ELSE 0, Limbs64))
                  IN  Done(UpdateInt(st, i), WriteBool(b, r.v), i)

\* the type switch of numberConverter.ValidateAndConvert
NumberCoerce(c, val) ==
    IF val.k = "int" THEN Rescale(FromInt64(val.n), c.precision, c.scale)
    ELSE IF val.k = "uint" THEN Rescale(FromUint64(val.n), c.precision, c.scale)
    ELSE IF val.k = "float" THEN FromFloat64(val.f, c.precision, c.scale)
    ELSE IF val.k = "string" THEN FromString(val.s, c.precision, c.scale)
    ELSE LET i == ValueAsInt64(val)
         IN  IF ~i.ok THEN [ok |-> FALSE, v |-> Zero128]
             ELSE Rescale(FromInt64(i.v), c.precision, c.scale)

\* numberConverter.ValidateAndConvert
NumberValidateAndConvert(c, st, val, b) ==
    IF val = Nil THEN HandleNil(c, st, b)
    ELSE LET r == NumberCoerce(c, val)
         IN  IF ~r.ok
             THEN Fail(IF val.k \in {"int", "uint", "float", "string"}
                       THEN ErrRescale ELSE ErrCoerce, st, b)
             ELSE Done(UpdateInt(st, r.v), WriteInt128(b, r.v), r.v)

\* doubleConverter.ValidateAndConvert
DoubleValidateAndConvert(c, st, val, b) ==
    IF val = Nil THEN HandleNil(c, st, b)
    ELSE LET r == ValueAsFloat64(val)
         IN  IF ~r.ok THEN Fail(ErrCoerce, st, b)
             ELSE Done(UpdateReal(st, r.v), WriteFloat64(b, r.v), r.v)

\* the length test with a slip: a value of exactly maxLength is too long
TooLongInclusive(v, maxLength) == Len(v) >= maxLength

\* len(v) > c.maxLength
TooLong(v, maxLength) == Len(v) > maxLength

\* binaryConverter.ValidateAndConvert
BinaryValidateAndConvert(c, st, val, b) ==
    IF val = Nil THEN HandleNil(c, st, b)
    ELSE LET r == ValueAsBytes(val)
         IN  IF ~r.ok THEN Fail(ErrCoerce, st, b)
             ELSE IF TooLong(r.v, c.maxLength) THEN Fail(ErrTooLong, st, b)
             ELSE IF c.utf8 /\ ~Utf8Valid(r.v) THEN Fail(ErrInvalidUTF8, st, b)
             ELSE Done(UpdateStr(st, r.v), WriteBytes(b, r.v), r.v)

\* jsonConverter.ValidateAndConvert
JSONValidateAndConvert(c, st, val, b) ==
    IF val = Nil THEN HandleNil(c, st, b)
    ELSE LET v == JSONBytes(val)
         IN  IF TooLong(v, c.maxLength) THEN Fail(ErrTooLong, st, b)
             ELSE Done(UpdateStr(st, v), WriteBytes(b, v), v)

\* jsonArrayConverter with a slip: the type is tested before nil
JSONArrayTypeFirst(c, st, val, b) ==
    IF val.k # "array" THEN Fail(ErrNotArray, st, b)
    ELSE JSONValidateAndConvert(c, st, val, b)

\* jsonArrayConverter.ValidateAndConvert
JSONArrayValidateAndConvert(c, st, val, b) ==
    IF val # Nil /\ val.k # "array" THEN Fail(ErrNotArray, st, b)
    ELSE JSONValidateAndConvert(c, st, val, b)

\* jsonObjectConverter with a slip: every structured value passes the test
JSONObjectAnyStructure(c, st, val, b) ==
    IF val # Nil /\ val.k \notin {"object", "array"} THEN Fail(ErrNotObject, st, b)
    ELSE JSONValidateAndConvert(c, st, val, b)

\* jsonObjectConverter.ValidateAndConvert
JSONObjectValidateAndConvert(c, st, val, b) ==
    IF val # Nil /\ val.k # "object" THEN Fail(ErrNotObject, st, b)
    ELSE JSONValidateAndConvert(c, st, val, b)

\* pow10TableInt64[k]
Pow10TableInt64(k) == 10^k

\* snowflakeTimestampInt(t, scale, includeTZ) without the time zone
SnowflakeTimestampInt(t, scale, includeTZ) ==
    Add(MulPow10(FromInt64(Unix(t)), scale),
        Fixed(t.ns \div Pow10TableInt64(9 - scale), Limbs128))

\* if s != "": whether the timestamp converter parses the text
TimestampParses(s) == s # <<>>

\* timestampConverter with a slip: the stats are updated before the
\* precision test
TimestampStatsFirst(c, st, val, b) ==
    IF val = Nil THEN HandleNil(c, st, b)
    ELSE LET isText == val.k \in {"string", "bytes"}
             s == IF isText THEN val.s ELSE <<>>
             coerced == IF isText THEN [ok |-> TRUE, t |-> ZeroTime]
                        ELSE ValueAsTimestamp(val)
         IN  IF ~coerced.ok THEN Fail(ErrCoerce, st, b)
             ELSE LET parsed == IF TimestampParses(s) THEN ParseRFC3339(s)
                                ELSE [ok |-> TRUE, t |-> coerced.t]
                  IN  IF ~parsed.ok THEN Fail(ErrParseTimestamp, st, b)
                      ELSE LET t == IF c.trimTZ THEN UTC(parsed.t) ELSE parsed.t
                               v == SnowflakeTimestampInt(t, c.scale, c.includeTZ)
                           IN  IF ~FitsInPrecision(v, c.precision)
                               THEN Fail(ErrPrecision, UpdateInt(st, v), b)
                               ELSE Done(UpdateInt(st, v), WriteInt128(b, v), v)

\* timestampConverter.ValidateAndConvert
TimestampValidateAndConvert(c, st, val, b) ==
    IF val = Nil THEN HandleNil(c, st, b)
    ELSE LET isText == val.k \in {"string", "bytes"}
             s == IF isText THEN val.s ELSE <<>>
             coerced == IF isText THEN [ok |-> TRUE, t |-> ZeroTime]
                        ELSE ValueAsTimestamp(val)
         IN  IF ~coerced.ok THEN Fail(ErrCoerce, st, b)
             ELSE LET parsed == IF TimestampParses(s) THEN ParseRFC3339(s)
                                ELSE [ok |-> TRUE, t |-> coerced.t]
                  IN  IF ~parsed.ok THEN Fail(ErrParseTimestamp, st, b)
                      ELSE LET t == IF c.trimTZ THEN UTC(parsed.t) ELSE parsed.t
                               v == SnowflakeTimestampInt(t, c.scale, c.includeTZ)
                           IN  IF ~FitsInPrecision(v, c.precision)
                               THEN Fail(ErrPrecision, st, b)
                               ELSE Done(UpdateInt(st, v), WriteInt128(b, v), v)

\* t.Hour()*int(time.Hour.Nanoseconds()) + ... + t.Nanosecond(), of a UTC t
NanosOfDay(t) ==
    LET hour   == t.sod \div SecondsPerHour
        minute == (t.sod % SecondsPerHour) \div 60
        second == t.sod % 60
    IN  Add(Add(MulPow10(Fixed(hour * SecondsPerHour, Limbs64), 9),
                MulPow10(Fixed(minute * 60, Limbs64), 9)),
            Add(MulPow10(Fixed(second, Limbs64), 9), Fixed(t.ns, Limbs64)))

RECURSIVE QuoPow10(_, _)
\* Go's a / 10^k
QuoPow10(a, k) ==
    IF k = 0 THEN a
    ELSE IF k >= 4 THEN QuoPow10(QuoSmall(a, 10^4), k - 4)
    ELSE QuoPow10(QuoSmall(a, 10), k - 1)

\* the division with a slip: to the nearest unit of the scale, halves up
RoundToScale(nanos, scale) ==
    IF scale >= 9 THEN nanos
    ELSE QuoPow10(Add(nanos, MulPow10(Fixed(5, Limbs64), 8 - scale)), 9 - scale)

\* int64(nanos) / pow10TableInt64[9-c.scale]
TruncateToScale(nanos, scale) == QuoPow10(nanos, 9 - scale)

\* timeConverter.ValidateAndConvert
TimeValidateAndConvert(c, st, val, b) ==
    IF val = Nil THEN HandleNil(c, st, b)
    ELSE LET r == ValueAsTimestamp(val)
         IN  IF ~r.ok THEN Fail(ErrCoerce, st, b)
             ELSE LET t == UTC(r.t)
                      v == FromInt64(TruncateToScale(NanosOfDay(t), c.scale))
                  IN  Done(UpdateInt(st, v), WriteInt128(b, v), v)

MinYear == -9999
MaxYear == 9999

\* the year test with a slip: the year of the wall clock in t's own zone
DateOutOfRangeLocal(t) == Year(t) < MinYear \/ Year(t) > MaxYear

\* t.Year() < -9999 || t.Year() > 9999, of the time the date converter got
DateOutOfRange(t) == Year(UTC(t)) < MinYear \/ Year(UTC(t)) > MaxYear

\* Go's a / int64(24*60*60)
QuoSecondsPerDay(a) == QuoSmall(QuoSmall(a, SecondsPerHour), HoursPerDay)

\* int128.FromInt64(t.Unix() / int64(24*60*60))
DateValue(t) == FromInt64(QuoSecondsPerDay(Unix(t)))

\* dateConverter.ValidateAndConvert
DateValidateAndConvert(c, st, val, b) ==
    IF val = Nil THEN HandleNil(c, st, b)
    ELSE LET r == ValueAsTimestamp(val)
         IN  IF ~r.ok THEN Fail(ErrCoerce, st, b)
             ELSE IF DateOutOfRange(r.t) THEN Fail(ErrDateRange, st, b)
             ELSE LET v == DateValue(UTC(r.t))
                  IN  Done(UpdateInt(st, v), WriteInt128(b, v), v)

-----------------------------------------------------------------------------
(* The columns and the inputs the model offers them. *)

\* "1970-01-01T00:00:00Z"
TextEpoch == <<49, 57, 55, 48, 45, 48, 49, 45, 48, 49, 84, 48, 48, 58, 48, 48, 58, 48, 48, 90>>
\* "1969-12-31T23:59:59Z"
TextBeforeEpoch == <<49, 57, 54, 57, 45, 49, 50, 45, 51, 49, 84, 50, 51, 58, 53, 57, 58, 53, 57, 90>>
\* "2024-02-29T12:00:00+05:30"
TextLeapDay == <<50, 48, 50, 52, 45, 48, 50, 45, 50, 57, 84, 49, 50, 58, 48, 48, 58, 48, 48, 43, 48, 53, 58, 51, 48>>
\* "1970-01-01T00:00:00": no zone, so no RFC 3339 timestamp
TextNoZone == <<49, 57, 55, 48, 45, 48, 49, 45, 48, 49, 84, 48, 48, 58, 48, 48, 58, 48, 48>>
\* "next week"
TextGarbage == <<110, 101, 120, 116, 32, 119, 101, 101, 107>>
\* "ab", "abcd", "b", the two bytes of U+00E9, its first byte alone, 0xFF
TextAb == <<97, 98>>
TextAbcd == <<97, 98, 99, 100>>
TextB == <<98>>
TextEAcute == <<195, 169>>
TextHalfRune == <<195>>
TextFF == <<255>>

Converters ==
    [type : {"bool", "double", "date"}, nullable : BOOLEAN]
    \cup [type : {"time"}, nullable : BOOLEAN, scale : 0..9]
    \cup [type : {"number"}, nullable : BOOLEAN, precision : {3}, scale : {0, 1}]
    \cup [type : {"binary"}, nullable : BOOLEAN, maxLength : {1, 3}, utf8 : BOOLEAN]
    \cup [type : {"json", "jsonArray", "jsonObject"}, nullable : BOOLEAN,
          maxLength : {3, 7}]
    \cup [type : {"timestamp"}, nullable : BOOLEAN, scale : {3},
          precision : {14, 38}, includeTZ : {FALSE}, trimTZ : BOOLEAN]

BoolInputs == {Nil, BoolVal(TRUE), BoolVal(FALSE), IntVal(2), StrVal(TextAb)}

NumberInputs ==
    {Nil, IntVal(-5), IntVal(1000), UintVal(Fixed(7, Limbs64)),
     FloatVal(Real(2)), FloatVal(NaN), StrVal(<<49, 50>>),
     StrVal(TextAb), BoolVal(TRUE)}

DoubleInputs ==
    {Nil, FloatVal(Real(-2)), FloatVal(Real(1)), FloatVal(Real(3)), FloatVal(NaN),
     IntVal(2), StrVal(TextAb)}

BinaryInputs ==
    {Nil, StrVal(TextAb), StrVal(TextAbcd), StrVal(<<>>), BytesVal(TextB),
     BytesVal(TextEAcute), BytesVal(TextHalfRune), BytesVal(TextFF), IntVal(1)}

JSONInputs ==
    {Nil, ArrVal(<<>>), ArrVal(<<1>>), ArrVal(<<1, 2, 3>>),
     ObjVal(<<>>), ObjVal([x \in {97} |-> 1]), ObjVal([x \in {97, 98} |-> 2]),
     StrVal(TextAb), IntVal(3), BoolVal(TRUE)}

TimestampInputs ==
    {Nil, TimeVal(Date(9999, 12, 31, 0, 0, 0, 0)),
     StrVal(TextEpoch), StrVal(TextBeforeEpoch), BytesVal(TextLeapDay),
     StrVal(<<>>), BytesVal(<<>>), StrVal(TextNoZone), BytesVal(TextGarbage),
     BoolVal(TRUE)}

\* 23:59:59.999999999 UTC, shown in a zone two hours east
LastNano == [Date(2024, 3, 1, 1, 59, 59, 7200) EXCEPT !.ns = 999999999]

TimeInputs ==
    {Nil, TimeVal(Date(1970, 1, 1, 0, 0, 0, 0)),
     TimeVal([Date(2024, 2, 29, 12, 34, 56, 0) EXCEPT !.ns = 500000000]),
     TimeVal(Date(2024, 2, 29, 1, 0, 0, 7200)), StrVal(TextLeapDay),
     StrVal(TextBeforeEpoch), TimeVal(LastNano), BoolVal(TRUE)}

DateInputs ==
    {Nil, BoolVal(TRUE), StrVal(TextBeforeEpoch),
     TimeVal(Date(1970, 1, 1, 0, 0, 0, 0)), TimeVal(Date(1970, 1, 1, 23, 59, 59, 0)),
     TimeVal(Date(1969, 12, 31, 0, 0, 0, 0)),
     TimeVal(Date(-9999, 1, 1, 0, 0, 0, 0)), TimeVal(Date(-10000, 12, 31, 23, 59, 59, 0)),
     TimeVal(Date(9999, 12, 31, 23, 59, 59, 0)), TimeVal(Date(10000, 1, 1, 0, 0, 0, 0)),
     TimeVal(Date(9999, 12, 31, 23, 0, 0, -7200)), TimeVal(Date(10000, 1, 1, 1, 0, 0, 7200))}

-----------------------------------------------------------------------------
(* One column of a chunk: the driver prepares the column's buffer over a    *)
(* matrix of MaxRows rows and calls the column's converter once per row.   *)

Init ==
    /\ conv \in Converters
    /\ stats = NewStats
    /\ buf = Prepare(NewBuffer("typedBufferImpl"), NewMatrix(MaxRows, MaxWidth),
                     MaxWidth - 1, MaxWidth)
    /\ last = [op |-> "Prepare", val |-> Nil, err |-> NoError]
    /\ accepted = <<>>
    /\ nullsIn = 0

\* the state after a call on val that returned r
Call(val, r) ==
    /\ stats' = r.stats
    /\ buf' = r.buf
    /\ last' = [op |-> "ValidateAndConvert", val |-> val, err |-> r.err]
    /\ accepted' = IF r.err = NoError /\ val # Nil THEN Append(accepted, r.v) ELSE accepted
    /\ nullsIn' = IF r.err = NoError /\ val = Nil THEN nullsIn + 1 ELSE nullsIn
    /\ UNCHANGED conv

BoolConvert ==
    /\ conv.type = "bool" /\ InRange(buf)
    /\ \E val \in BoolInputs : Call(val, BoolValidateAndConvert(conv, stats, val, buf))

NumberConvert ==
    /\ conv.type = "number" /\ InRange(buf)
    /\ \E val \in NumberInputs : Call(val, NumberValidateAndConvert(conv, stats, val, buf))

DoubleConvert ==
    /\ conv.type = "double" /\ InRange(buf)
    /\ \E val \in DoubleInputs : Call(val, DoubleValidateAndConvert(conv, stats, val, buf))

BinaryConvert ==
    /\ conv.type = "binary" /\ InRange(buf)
    /\ \E val \in BinaryInputs : Call(val, BinaryValidateAndConvert(conv, stats, val, buf))

JSONConvert ==
    /\ conv.type = "json" /\ InRange(buf)
    /\ \E val \in JSONInputs : Call(val, JSONValidateAndConvert(conv, stats, val, buf))

JSONArrayConvert ==
    /\ conv.type = "jsonArray" /\ InRange(buf)
    /\ \E val \in JSONInputs : Call(val, JSONArrayValidateAndConvert(conv, stats, val, buf))

JSONObjectConvert ==
    /\ conv.type = "jsonObject" /\ InRange(buf)
    /\ \E val \in JSONInputs : Call(val, JSONObjectValidateAndConvert(conv, stats, val, buf))

TimestampConvert ==
    /\ conv.type = "timestamp" /\ InRange(buf)
    /\ \E val \in TimestampInputs :
          Call(val, TimestampValidateAndConvert(conv, stats, val, buf))

TimeConvert ==
    /\ conv.type = "time" /\ InRange(buf)
    /\ \E val \in TimeInputs : Call(val, TimeValidateAndConvert(conv, stats, val, buf))

DateConvert ==
    /\ conv.type = "date" /\ InRange(buf)
    /\ \E val \in DateInputs : Call(val, DateValidateAndConvert(conv, stats, val, buf))

Next ==
    \/ BoolConvert
    \/ NumberConvert
    \/ DoubleConvert
    \/ BinaryConvert
    \/ JSONConvert
    \/ JSONArrayConvert
    \/ JSONObjectConvert
    \/ TimestampConvert
    \/ TimeConvert
    \/ DateConvert

Spec == Init /\ [][Next]_vars

-----------------------------------------------------------------------------
(* A typed buffer on its own: Prepare, Reset and the five writes, in any   *)
(* order the matrix has room for.  accepted holds the cells written since  *)
(* the last Prepare or Reset.                                              *)

\* 2^k as a 128-bit integer
Pow2(k) == [i \in 1..Limbs128 |-> IF i = (k \div LimbBits) + 1 THEN 2^(k % LimbBits) ELSE 0]

One128 == Fixed(1, Limbs128)

\* the Int128 values the model writes: around 0 and around the int32 and int64 limits
Int128Samples ==
    {Zero128, Neg(One128),
     Add(Pow2(31), Neg(One128)), Pow2(31), Neg(Pow2(31)), Add(Neg(Pow2(31)), Neg(One128)),
     Pow2(63), Add(Neg(Pow2(63)), Neg(One128))}

\* the layouts of a column in a matrix: <<rowWidth, columnIndex>>
Layouts == {l \in (1..MaxWidth) \X (0..(MaxWidth - 1)) : l[2] < l[1]}

InitBuffer ==
    /\ conv = [type |-> "none"]
    /\ stats = NewStats
    /\ buf \in {NewBuffer(kind) : kind \in BufferKinds}
    /\ last = [op |-> "new", val |-> Nil, err |-> NoError]
    /\ accepted = <<>>
    /\ nullsIn = 0

\* the state after the write op(val) that left the buffer as b
Wrote(op, val, b) ==
    /\ buf' = b
    /\ last' = [op |-> op, val |-> val, err |-> NoError]
    /\ accepted' = Append(accepted, b.matrix[(Len(accepted) * buf.rowWidth) + buf.columnIndex + 1])
    /\ UNCHANGED <<conv, stats, nullsIn>>

BufPrepare ==
    /\ \E l \in Layouts : buf' = Prepare(buf, NewMatrix(MaxRows, l[1]), l[2], l[1])
    /\ last' = [op |-> "Prepare", val |-> Nil, err |-> NoError]
    /\ accepted' = <<>>
    /\ UNCHANGED <<conv, stats, nullsIn>>

BufReset ==
    /\ buf' = Reset(buf)
    /\ last' = [op |-> "Reset", val |-> Nil, err |-> NoError]
    /\ accepted' = <<>>
    /\ UNCHANGED <<conv, stats, nullsIn>>

BufWriteNull ==
    /\ InRange(buf)
    /\ Wrote("WriteNull", Nil, WriteNull(buf))

BufWriteBool ==
    /\ InRange(buf)
    /\ \E v \in {TRUE} : Wrote("WriteBool", v, WriteBool(buf, v))

BufWriteFloat64 ==
    /\ InRange(buf)
    /\ \E v \in {Real(1)} : Wrote("WriteFloat64", v, WriteFloat64(buf, v))

BufWriteInt128 ==
    /\ InRange(buf)
    /\ \E v \in Int128Samples : Wrote("WriteInt128", v, WriteInt128(buf, v))

BufWriteBytes ==
    /\ InRange(buf)
    /\ \E v \in {TextAb} : Wrote("WriteBytes", v, WriteBytes(buf, v))

NextBuffer ==
    \/ BufPrepare
    \/ BufReset
    \/ BufWriteNull
    \/ BufWriteBool
    \/ BufWriteFloat64
    \/ BufWriteInt128
    \/ BufWriteBytes

SpecBuffer == InitBuffer /\ [][NextBuffer]_vars

-----------------------------------------------------------------------------
(* The claims. *)

Range(xs) == {xs[i] : i \in 1..Len(xs)}

IsCall(l) == l.op = "ValidateAndConvert"

IntColumns == {"bool", "number", "timestamp", "time", "date"}
RealColumns == {"double"}
StrColumns == {"binary", "json", "jsonArray", "jsonObject"}

\* IEEE 754 total order on the model's floats: NaN above every number
FloatTotalLess(x, y) == IF x.nan THEN FALSE ELSE IF y.nan THEN TRUE ELSE x.v < y.v

\* a before b in byte-lexicographic order
LexLess(a, b) ==
    \E i \in 1..Len(b) :
        /\ i - 1 <= Len(a)
        /\ \A j \in 1..(i - 1) : a[j] = b[j]
        /\ (i > Len(a) \/ a[i] < b[i])

IntAggregates ==
    /\ stats.minIntVal \in Range(accepted) /\ stats.maxIntVal \in Range(accepted)
    /\ \A x \in Range(accepted) : ~Less(x, stats.minIntVal) /\ ~Less(stats.maxIntVal, x)

RealAggregates ==
    /\ stats.minRealVal \in Range(accepted) /\ stats.maxRealVal \in Range(accepted)
    /\ \A x \in Range(accepted) :
          ~FloatTotalLess(x, stats.minRealVal) /\ ~FloatTotalLess(stats.maxRealVal, x)

StrAggregates ==
    /\ stats.minStrVal \in Range(accepted) /\ stats.maxStrVal \in Range(accepted)
    /\ \A x \in Range(accepted) : ~LexLess(x, stats.minStrVal) /\ ~LexLess(stats.maxStrVal, x)
    /\ \E x \in Range(accepted) : Len(x) = stats.maxStrLen
    /\ \A x \in Range(accepted) : Len(x) <= stats.maxStrLen

\* C1: after any sequence of calls on one column, starting from fresh stats,
\* nullCount is the number of nil inputs accepted, first is cleared exactly
\* when a non-nil value was accepted, and min, max (and maxStrLen) are the
\* true minimum, maximum (and longest length) of the accepted non-nil values.
C1_StatsAreTrueAggregates ==
    conv.type \in IntColumns \cup RealColumns \cup StrColumns =>
        /\ stats.nullCount = nullsIn
        /\ stats.first = (accepted = <<>>)
        /\ accepted # <<>> =>
              /\ conv.type \in IntColumns => IntAggregates
              /\ conv.type \in RealColumns => RealAggregates
              /\ conv.type \in StrColumns => StrAggregates

\* C2: on a nullable column a nil input returns no error, adds one to
\* nullCount, writes one null cell at the cursor, advances the cursor by one
\* and leaves every other field of the stats and of the buffer as it was.
C2_NullableNilCountsOnly ==
    [][(IsCall(last') /\ last'.val = Nil /\ conv.nullable) =>
          /\ last'.err = NoError
          /\ stats' = [stats EXCEPT !.nullCount = stats.nullCount + 1]
          /\ buf' = [buf EXCEPT !.matrix[CellIndex(buf) + 1] = NullValue,
                                !.currentRow = buf.currentRow + 1]]_vars

\* a nil after a value on a nullable JSON array column
C2_Witness ==
    /\ conv.type = "jsonArray" /\ conv.nullable
    /\ IsCall(last) /\ last.val = Nil /\ last.err = NoError
    /\ stats.nullCount = 1 /\ ~stats.first /\ buf.currentRow = 2

\* C3: on a column that is not nullable a nil input returns errNullValue,
\* for every converter type, and changes neither the stats nor the buffer.
C3_NonNullableNilFails ==
    [][(IsCall(last') /\ last'.val = Nil /\ ~conv.nullable) =>
          /\ last'.err = ErrNullValue
          /\ stats' = stats
          /\ buf' = buf]_vars

\* a nil refused on a JSON array column that is not nullable
C3_Witness ==
    /\ conv.type = "jsonArray" /\ ~conv.nullable
    /\ IsCall(last) /\ last.val = Nil /\ last.err = ErrNullValue
    /\ buf.currentRow = 1 /\ stats.nullCount = 0

\* the index (from 1) in the matrix of row k (from 1) of the buffer's column
CellOfRow(k) == ((k - 1) * buf.rowWidth) + buf.columnIndex + 1

\* C4: Prepare and Reset set the row cursor to 0; then the k-th write is
\* the one cell of row k-1 of the buffer's column, the cursor is the number
\* of writes so far, and every other cell of the matrix is as Prepare got it:
\* no write skips a row, touches a second cell or overwrites a written cell.
C4_WritesAreSequential ==
    /\ last.op \in {"Prepare", "Reset"} => buf.currentRow = 0
    /\ buf.currentRow = Len(accepted)
    /\ \A k \in 1..Len(accepted) :
          /\ CellOfRow(k) \in 1..Len(buf.matrix)
          /\ buf.matrix[CellOfRow(k)] = accepted[k]
          /\ accepted[k] # UnsetCell
    /\ \A i \in 1..Len(buf.matrix) :
          (\A k \in 1..Len(accepted) : i # CellOfRow(k)) => buf.matrix[i] = UnsetCell

\* two different writes into the second column of a matrix two cells wide
C4_Witness ==
    /\ buf.rowWidth = 2 /\ buf.columnIndex = 1 /\ buf.currentRow = 2
    /\ last.op = "WriteBytes"
    /\ buf.matrix[2] = NullValue /\ buf.matrix[4].kind = "bytes"

TrueMaxLen == CHOOSE n \in {Len(x) : x \in Range(accepted)} : \A x \in Range(accepted) : Len(x) <= n

\* C5: on a binary column a byte-coercible value is refused as too long
\* exactly when its length is greater than maxLength, and as invalid UTF-8
\* exactly when it is not too long, UTF-8 is required and its bytes are not
\* valid UTF-8; a refused value leaves the stats and the buffer as they
\* were, so the stats always are the aggregates of the accepted values.
C5_BinaryRejects ==
    /\ [][(conv.type = "binary" /\ IsCall(last') /\ last'.val.k \in {"string", "bytes"}) =>
             /\ (last'.err = ErrTooLong) = (Len(last'.val.s) > conv.maxLength)
             /\ (last'.err = ErrInvalidUTF8) =
                    (/\ Len(last'.val.s) <= conv.maxLength
                     /\ conv.utf8 /\ ~Utf8Valid(last'.val.s))
             /\ last'.err \in {NoError, ErrTooLong, ErrInvalidUTF8}
             /\ last'.err # NoError => stats' = stats /\ buf' = buf
             /\ last'.err = NoError =>
                    /\ accepted' = Append(accepted, last'.val.s)
                    /\ buf'.currentRow = buf.currentRow + 1]_vars
    /\ [](conv.type = "binary" =>
             /\ stats.nullCount = nullsIn
             /\ accepted # <<>> => StrAggregates /\ stats.maxStrLen = TrueMaxLen)

\* maxLength 3, UTF-8 required, inputs "ab" then "abcd": nulls 0, maxStrLen 2
C5_Witness ==
    /\ conv.type = "binary" /\ conv.maxLength = 3 /\ conv.utf8
    /\ accepted = <<TextAb>> /\ buf.currentRow = 1
    /\ IsCall(last) /\ last.val = StrVal(TextAbcd) /\ last.err = ErrTooLong
    /\ stats.nullCount = 0 /\ stats.maxStrLen = 2

\* C6: the double converter refuses NaN, so after any calls neither
\* minRealVal nor maxRealVal is NaN and no cell of the column holds NaN.
C6_NaNIsRejected ==
    conv.type = "double" =>
        /\ (IsCall(last) /\ last.val = FloatVal(NaN)) => last.err # NoError
        /\ ~stats.minRealVal.nan /\ ~stats.maxRealVal.nan
        /\ \A i \in 1..Len(buf.matrix) :
              buf.matrix[i].kind = "double" => ~buf.matrix[i].v.nan

\* the time a call's input stands for
InputTime(l) == ValueAsTimestamp(l.val).t

\* the value the last accepted call converted its input to
LastAccepted == accepted[Len(accepted)]

\* C7: the date converter writes the number of the UTC calendar day that
\* contains the timestamp (days since 1970-01-01, negative before it).
C7_DateIsUTCDayNumber ==
    (conv.type = "date" /\ IsCall(last) /\ last.val # Nil /\ last.err = NoError) =>
        LastAccepted = Fixed(UTCDayNumber(InputTime(last)), Limbs128)

\* C8: the timestamp converter refuses every string or byte input that is
\* no RFC 3339 timestamp, the empty one too, with the unable-to-parse
\* error, and then updates no stats and writes no cell.
C8_TextMustParse ==
    [][(/\ conv.type = "timestamp" /\ IsCall(last')
        /\ last'.val.k \in {"string", "bytes"}
        /\ ~ParseRFC3339(last'.val.s).ok) =>
          /\ last'.err = ErrParseTimestamp
          /\ stats' = stats
          /\ buf' = buf]_vars

\* the cell the last write of the buffer wrote
LastCell == buf.matrix[CellOfRow(buf.currentRow)]

\* v is an int64, an int32: the range a buffer's cells can hold
MinInt64 == Neg(Pow2(63))
MinInt32 == Neg(Pow2(31))
FitsInt64(v) == ~Less(v, MinInt64) /\ Less(v, Pow2(63))
FitsInt32(v) == ~Less(v, MinInt32) /\ Less(v, Pow2(31))
FitsBuffer(v, kind) ==
    IF kind = "int64Buffer" THEN FitsInt64(v)
    ELSE IF kind = "int32Buffer" THEN FitsInt32(v)
    ELSE TRUE

\* C9 as claimed: whatever Int128 WriteInt128 gets, the cell of every kind
\* of buffer denotes that integer.
C9_NarrowingKeepsValue ==
    last.op = "WriteInt128" => CellInt(LastCell) = last.val

\* C9 amended: the cell denotes the integer written whenever that integer
\* fits the buffer's width (any Int128 for typedBufferImpl, an int64 for
\* int64Buffer, an int32 for int32Buffer); an integer outside the width is
\* stored as its low 64 or 32 bits and denotes another integer.
C9_NarrowingKeepsValueInRange ==
    last.op = "WriteInt128" =>
        /\ FitsBuffer(last.val, buf.kind) => CellInt(LastCell) = last.val
        /\ ~FitsBuffer(last.val, buf.kind) =>
              /\ CellInt(LastCell) # last.val
              /\ LastCell.v = Truncate(last.val, Len(LastCell.v))

\* the least int32 written to an int32Buffer, and 2^31 written to an int64Buffer
C9_Witness ==
    /\ last.op = "WriteInt128"
    /\ \/ buf.kind = "int32Buffer" /\ last.val = MinInt32 /\ LastCell.kind = "int32"
       \/ buf.kind = "int64Buffer" /\ last.val = Pow2(31) /\ LastCell.kind = "int64"

\* C10: a timestamp-coercible value is accepted by the date converter
\* exactly when the year of its UTC date is in -9999..9999; outside it the
\* call fails with the out-of-range error and changes neither stats nor buffer.
C10_DateYearRange ==
    [][(conv.type = "date" /\ IsCall(last') /\ last'.val # Nil
        /\ ValueAsTimestamp(last'.val).ok) =>
          LET y == CivilYear(UTCDayNumber(InputTime(last')))
          IN  /\ (last'.err = NoError) = (y >= -9999 /\ y <= 9999)
              /\ last'.err \in {NoError, ErrDateRange}
              /\ last'.err = ErrDateRange => stats' = stats /\ buf' = buf
              /\ last'.err = NoError => buf'.currentRow = buf.currentRow + 1]_vars

\* the first day of year -9999 accepted after the last second of year -10000
\* was refused
C10_Witness ==
    /\ conv.type = "date" /\ IsCall(last)
    /\ last.val = TimeVal(Date(-9999, 1, 1, 0, 0, 0, 0)) /\ last.err = NoError
    /\ Len(accepted) = 1 /\ buf.currentRow = 1
    /\ LastAccepted = Fixed(DaysFromCivil(-9999, 1, 1), Limbs128)

\* n of a time: the nanoseconds since UTC midnight, sod * 10^9 + nanosecond
\* (sod = hour*3600 + minute*60 + second of the UTC wall clock)
NanosSinceMidnight(t) ==
    Add(MulPow10(Fixed(t.sod, Limbs128), 9), Fixed(t.ns, Limbs128))

\* 86400 * 10^s: the units of scale s in a day
UnitsPerDay(scale) == MulPow10(Fixed(SecondsPerDay, Limbs128), scale)

\* C11: at every scale s in 0..9 the time converter writes
\* floor(n / 10^(9-s)), n the nanoseconds since UTC midnight: the value v
\* has v * 10^(9-s) <= n < (v+1) * 10^(9-s), lies in 0 .. 86400*10^s - 1,
\* and 23:59:59.999999999 is written as 86400*10^s - 1.
C11_TimeTruncates ==
    (conv.type = "time" /\ IsCall(last) /\ last.val # Nil /\ last.err = NoError) =>
        LET n == NanosSinceMidnight(InputTime(last))
            v == LastAccepted
            p == 9 - conv.scale
        IN  /\ conv.scale \in 0..9
            /\ ~Less(n, MulPow10(v, p))
            /\ Less(n, MulPow10(Add(v, One128), p))
            /\ ~IsNeg(v) /\ Less(v, UnitsPerDay(conv.scale))
            /\ last.val = TimeVal(LastNano) =>
                   Add(v, One128) = UnitsPerDay(conv.scale)

\* the last nanosecond of the day written as 86399 at scale 0
C11_Witness ==
    /\ conv.type = "time" /\ conv.scale = 0
    /\ IsCall(last) /\ last.val = TimeVal(LastNano) /\ last.err = NoError
    /\ LastAccepted = Fixed(86399, Limbs128)
    /\ buf.currentRow = 1

\* the kind of value a JSON column takes, and the error of every other kind
JSONKind == [jsonArray |-> "array", jsonObject |-> "object"]
JSONKindError == [jsonArray |-> ErrNotArray, jsonObject |-> ErrNotObject]

\* C12: a JSON array (object) column refuses every non-nil value that is no
\* array (object) with the not-a-JSON-array (-object) error and changes
\* neither stats nor buffer; a value of the right kind is refused as too
\* long exactly when its encoding is longer than maxLength, and otherwise
\* its encoding is written as one bytes cell at the cursor and enters the
\* byte-lexicographic min and max and maxStrLen.
C12_JSONKindIsChecked ==
    /\ [][(conv.type \in DOMAIN JSONKind /\ IsCall(last') /\ last'.val # Nil) =>
             LET v == JSONBytes(last'.val)
             IN  IF last'.val.k # JSONKind[conv.type]
                 THEN /\ last'.err = JSONKindError[conv.type]
                      /\ stats' = stats /\ buf' = buf /\ accepted' = accepted
                 ELSE /\ (last'.err = ErrTooLong) = (Len(v) > conv.maxLength)
                      /\ last'.err \in {NoError, ErrTooLong}
                      /\ last'.err = ErrTooLong => stats' = stats /\ buf' = buf
                      /\ last'.err = NoError =>
                             /\ accepted' = Append(accepted, v)
                             /\ buf' = [buf EXCEPT
                                   !.matrix[CellIndex(buf) + 1] =
                                       [kind |-> "bytes", v |-> v, def |-> 1,
                                        col |-> buf.columnIndex],
                                   !.currentRow = buf.currentRow + 1]
                             /\ stats'.nullCount = stats.nullCount]_vars
    /\ [](conv.type \in DOMAIN JSONKind =>
             /\ stats.first = (accepted = <<>>)
             /\ accepted # <<>> => StrAggregates /\ stats.maxStrLen = TrueMaxLen)

\* on an object column: {} accepted, then the array [1] refused
C12_Witness ==
    /\ conv.type = "jsonObject" /\ accepted = <<<<123, 125>>>>
    /\ IsCall(last) /\ last.val = ArrVal(<<1>>) /\ last.err = ErrNotObject
    /\ buf.currentRow = 1 /\ stats.maxStrLen = 2 /\ stats.minStrVal = <<123, 125>>

\* C13: a call that returns an error leaves the stats and the buffer (row
\* cursor, matrix) exactly as they were; a call that returns no error
\* writes exactly one cell, the one at the cursor, and advances the cursor
\* by one; so the cursor always is the number of successful calls on the
\* column and nullCount never exceeds it.
C13_AllOrNothing ==
    /\ [][IsCall(last') =>
             IF last'.err # NoError
             THEN stats' = stats /\ buf' = buf
             ELSE /\ buf'.currentRow = buf.currentRow + 1
                  /\ buf'.matrix[CellIndex(buf) + 1] # buf.matrix[CellIndex(buf) + 1]
                  /\ buf' = [buf EXCEPT
                        !.matrix[CellIndex(buf) + 1] = buf'.matrix[CellIndex(buf) + 1],
                        !.currentRow = buf.currentRow + 1]]_vars
    /\ [](/\ buf.currentRow = Len(accepted) + nullsIn
          /\ stats.nullCount <= buf.currentRow)

\* a timestamp column after a nil and a text were accepted and a time too
\* large for the precision was refused
C13_Witness ==
    /\ conv.type = "timestamp" /\ conv.precision = 14
    /\ IsCall(last) /\ last.val.k = "time" /\ last.err = ErrPrecision
    /\ Len(accepted) = 1 /\ nullsIn = 1
    /\ buf.currentRow = 2 /\ stats.nullCount = 1 /\ ~stats.first

====
